---------------------------- MODULE Spec2Model ----------------------------
(***************************************************************************)
(* Brand Matcher (src/brand_match_streamlit/app.py).                       *)
(*                                                                         *)
(* Text is modelled as a sequence of one-character strings, so that the    *)
(* regular-expression steps of clean_text and the " by " split act on      *)
(* characters as the code does.  A similarity score is the exact rational  *)
(* 100 * num / den that rapidfuzz computes (100 - 100 * dist / lensum).    *)
(***************************************************************************)
EXTENDS Integers, Sequences, FiniteSets, TLC

VARIABLES
    pc,                              \* position of the script / of a pure-function check
    desc_df,                         \* descriptions column, after read_excel and astype(str)
    brand_file,                      \* brand column of the uploaded file, cell by cell
    brand_df,                        \* brand column, after read_excel (cells, NaN included)
    similarity_threshold,            \* st.slider value
    top_n,                           \* st.number_input value
    cleaned_brands,                  \* list of clean_text(brand)
    cleaned_to_original,             \* dict cleaned brand -> original brand
    row,                             \* number of description rows processed by the loop
    matched_brands_per_description,  \* list, one filtered list per processed row
    extract_calls,                   \* per processed row, the queries given to process.extract
    out_df,                          \* the output frame
    text,                            \* input of a pure-function check
    once,                            \* clean_text(text)
    twice,                           \* clean_text(clean_text(text))
    built,                           \* [query, by] built from text by the loop's " by " heuristic
    names,                           \* matched brand names given to the refinement filter
    classification                   \* the refinement filter's result

vars == <<pc, desc_df, brand_file, brand_df, similarity_threshold, top_n, cleaned_brands,
          cleaned_to_original, row, matched_brands_per_description, extract_calls,
          out_df, text, once, twice, built, names, classification>>

pipeline_vars == <<desc_df, brand_file, brand_df, similarity_threshold, top_n, cleaned_brands,
                   cleaned_to_original, row, matched_brands_per_description,
                   extract_calls, out_df>>

text_vars == <<text, once, twice, built>>

refine_vars == <<names, classification>>

-----------------------------------------------------------------------------
(* Bounds of the model *)

MaxLen == 5        \* longest text given to clean_text alone
MaxQueryLen == 7   \* longest description given to the " by " heuristic alone
MaxBrands == 2     \* most rows of an uploaded brands file
MaxDescs == 2      \* most rows of an uploaded descriptions file
MaxTopN == 1       \* largest "Top N candidates" chosen besides the default
MaxNames == 2      \* most matched brand names given to the refinement filter

-----------------------------------------------------------------------------
(* Characters *)

Upper == <<"A","B","C","D","E","F","G","H","I","J","K","L","M",
           "N","O","P","Q","R","S","T","U","V","W","X","Y","Z">>

Lower == <<"a","b","c","d","e","f","g","h","i","j","k","l","m",
           "n","o","p","q","r","s","t","u","v","w","x","y","z">>

Digits == <<"0","1","2","3","4","5","6","7","8","9">>

\* code-point order of the characters a cleaned text can hold
CharOrder == Digits \o <<"_">> \o Lower

Range(f) == {f[k] : k \in DOMAIN f}

UpperChars == Range(Upper)

LowerWordChars == Range(Lower) \cup Range(Digits) \cup {"_"}

WordChars == UpperChars \cup LowerWordChars

\* \w of the re module, on the ASCII characters
IsWord(c) == c \in WordChars

\* \s of the re module, on the ASCII characters
IsSpace(c) == c \in {" ", "\t", "\n", "\r", "\f"}

\* the class of the apostrophe step; of its four characters the straight quote
\* is the one the model's texts hold
IsApostrophe(c) == c \in {"'"}

LowerChar(c) ==
    IF c \in UpperChars THEN Lower[CHOOSE k \in DOMAIN Upper : Upper[k] = c] ELSE c

RECURSIVE lower(_)
\* str.lower()
lower(s) == IF s = <<>> THEN <<>> ELSE <<LowerChar(Head(s))>> \o lower(Tail(s))

-----------------------------------------------------------------------------
(* clean_text *)

RECURSIVE FindFrom(_, _, _)
\* least index >= k at which character c stands in s, 0 when there is none
FindFrom(s, c, k) ==
    IF k > Len(s) THEN 0
    ELSE IF s[k] = c THEN k
    ELSE FindFrom(s, c, k + 1)

RECURSIVE RemoveParens(_)
\* re.sub(r'\([^)]*\)', '', text)
RemoveParens(s) ==
    LET open == FindFrom(s, "(", 1)
        close == IF open = 0 THEN 0 ELSE FindFrom(s, ")", open + 1)
    IN  IF close = 0 THEN s
        ELSE SubSeq(s, 1, open - 1) \o RemoveParens(SubSeq(s, close + 1, Len(s)))

\* the re.sub of the apostrophe class by the empty string
RemoveApostrophes(s) == SelectSeq(s, LAMBDA c : ~IsApostrophe(c))

LegalSuffixes ==
    { <<"i","n","c">>,
      <<"i","n","c","o","r","p","o","r","a","t","e","d">>,
      <<"l","t","d">>,
      <<"l","l","c">>,
      <<"c","o","r","p">>,
      <<"c","o">>,
      <<"c","o","m","p","a","n","y">> }

RECURSIVE WordEnd(_, _)
\* index of the last character of the run of word characters that holds s[k]
WordEnd(s, k) ==
    IF k < Len(s) /\ IsWord(s[k + 1]) THEN WordEnd(s, k + 1) ELSE k

RECURSIVE RemoveLegalFrom(_, _)
RemoveLegalFrom(s, k) ==
    IF k > Len(s) THEN <<>>
    ELSE IF IsWord(s[k])
         THEN LET e == WordEnd(s, k)
                  w == SubSeq(s, k, e)
              IN  (IF w \in LegalSuffixes THEN <<>> ELSE w) \o RemoveLegalFrom(s, e + 1)
         ELSE <<s[k]>> \o RemoveLegalFrom(s, k + 1)

\* re.sub(r'\b(inc|incorporated|ltd|llc|corp|co|company)\b', '', text):
\* a match starts and ends at a word boundary, so it is a whole run of word characters
RemoveLegal(s) == RemoveLegalFrom(s, 1)

RECURSIVE PunctToSpace(_)
\* re.sub(r'[^\w\s]', ' ', text)
PunctToSpace(s) ==
    IF s = <<>> THEN <<>>
    ELSE <<IF IsWord(Head(s)) \/ IsSpace(Head(s)) THEN Head(s) ELSE " ">> \o PunctToSpace(Tail(s))

RECURSIVE CollapseFrom(_, _)
CollapseFrom(s, k) ==
    IF k > Len(s) THEN <<>>
    ELSE IF IsSpace(s[k])
         THEN (IF k > 1 /\ IsSpace(s[k - 1]) THEN <<>> ELSE <<" ">>) \o CollapseFrom(s, k + 1)
         ELSE <<s[k]>> \o CollapseFrom(s, k + 1)

\* re.sub(r'\s+', ' ', text)
CollapseSpaces(s) == CollapseFrom(s, 1)

RECURSIVE strip(_)
\* str.strip()
strip(s) ==
    IF s = <<>> THEN s
    ELSE IF IsSpace(s[1]) THEN strip(Tail(s))
    ELSE IF IsSpace(s[Len(s)]) THEN strip(SubSeq(s, 1, Len(s) - 1))
    ELSE s

\* the steps in another order: the legal words are removed before the apostrophes
clean_text_suffix_first(t) ==
    strip(CollapseSpaces(PunctToSpace(RemoveApostrophes(RemoveLegal(RemoveParens(lower(t)))))))

clean_text(t) ==
    strip(CollapseSpaces(PunctToSpace(RemoveLegal(RemoveApostrophes(RemoveParens(lower(t)))))))

-----------------------------------------------------------------------------
(* rapidfuzz: fuzz.token_set_ratio and process.extract, as the loop calls them *)

RECURSIVE split(_)
\* str.split(): the runs of non-whitespace characters, in order
split(s) ==
    IF s = <<>> THEN <<>>
    ELSE IF IsSpace(s[1]) THEN split(Tail(s))
    ELSE LET sp == CHOOSE k \in 1..(Len(s) + 1) :
                       /\ k > Len(s) \/ IsSpace(s[k])
                       /\ \A j \in 1..(k - 1) : ~IsSpace(s[j])
         IN  <<SubSeq(s, 1, sp - 1)>> \o split(SubSeq(s, sp, Len(s)))

Ord(c) == IF c \in LowerWordChars THEN CHOOSE k \in DOMAIN CharOrder : CharOrder[k] = c ELSE 0

RECURSIVE TokenLess(_, _)
\* a < b of two strings
TokenLess(a, b) ==
    IF b = <<>> THEN FALSE
    ELSE IF a = <<>> THEN TRUE
    ELSE IF a[1] # b[1] THEN Ord(a[1]) < Ord(b[1])
    ELSE TokenLess(Tail(a), Tail(b))

RECURSIVE JoinSorted(_)
\* " ".join(sorted(tokens))
JoinSorted(tokens) ==
    IF tokens = {} THEN <<>>
    ELSE LET first == CHOOSE t \in tokens : \A u \in tokens \ {t} : TokenLess(t, u)
             rest == JoinSorted(tokens \ {first})
         IN  IF rest = <<>> THEN first ELSE first \o <<" ">> \o rest

Max(a, b) == IF a >= b THEN a ELSE b

\* length of a longest common subsequence of a and b
LCS(a, b) ==
    LET f[i \in 0..Len(a), j \in 0..Len(b)] ==
            IF i = 0 \/ j = 0 THEN 0
            ELSE IF a[i] = b[j] THEN f[i - 1, j - 1] + 1
            ELSE Max(f[i - 1, j], f[i, j - 1])
    IN  f[Len(a), Len(b)]

\* Indel distance: insertions and deletions that turn a into b
indel_distance(a, b) == Len(a) + Len(b) - 2 * LCS(a, b)

\* a score is the rational 100 * num / den
Score(n, d) == [num |-> n, den |-> d]

\* 100 - 100 * dist / lensum
norm_distance(dist, lensum) == IF lensum = 0 THEN Score(1, 1) ELSE Score(lensum - dist, lensum)

ScoreGE(a, b) == a.num * b.den >= b.num * a.den

ScoreEq(a, b) == a.num * b.den = b.num * a.den

MaxScore(a, b) == IF ScoreGE(a, b) THEN a ELSE b

\* score >= t for an integer t
AtLeast(score, t) == 100 * score.num >= t * score.den

\* the three ratios of token_set_ratio, from the joined differences and the
\* length of the joined intersection
best_ratio(diff_ab_joined, diff_ba_joined, sect_len) ==
    LET sep == IF sect_len # 0 THEN 1 ELSE 0
        sect_ab_len == sect_len + sep + Len(diff_ab_joined)
        sect_ba_len == sect_len + sep + Len(diff_ba_joined)
    IN  IF sect_len = 0
        THEN norm_distance(indel_distance(diff_ab_joined, diff_ba_joined),
                           sect_ab_len + sect_ba_len)
        ELSE MaxScore(norm_distance(indel_distance(diff_ab_joined, diff_ba_joined),
                                    sect_ab_len + sect_ba_len),
                      MaxScore(norm_distance(sep + Len(diff_ab_joined), sect_len + sect_ab_len),
                               norm_distance(sep + Len(diff_ba_joined), sect_len + sect_ba_len)))

token_set_score(tokens_a, tokens_b) ==
    IF tokens_a = {} \/ tokens_b = {} THEN Score(0, 1)
    ELSE IF tokens_a \cap tokens_b # {} /\ (tokens_a \subseteq tokens_b \/ tokens_b \subseteq tokens_a)
         THEN Score(1, 1)
    ELSE best_ratio(JoinSorted(tokens_a \ tokens_b), JoinSorted(tokens_b \ tokens_a),
                    Len(JoinSorted(tokens_a \cap tokens_b)))

\* fuzz.token_set_ratio(s1, s2)
token_set_ratio(s1, s2) == token_set_score(Range(split(s1)), Range(split(s2)))

\* choice j comes before choice k: a higher score, or the same score and a lower index
before(scores, j, k) ==
    \/ ~ScoreGE(scores[k], scores[j])
    \/ ScoreEq(scores[j], scores[k]) /\ j < k

RECURSIVE ranked(_, _, _, _)
\* the choices of the index set left, sorted by falling score, equal scores by
\* rising index, cut at limit; an entry is (choice, score, index)
ranked(choices, scores, left, limit) ==
    IF limit <= 0 \/ left = {} THEN <<>>
    ELSE LET k == CHOOSE k \in left : \A j \in left \ {k} : before(scores, k, j)
         IN  <<[choice |-> choices[k], score |-> scores[k], index |-> k]>>
                 \o ranked(choices, scores, left \ {k}, limit - 1)

RECURSIVE score_all(_, _)
\* the score of every choice against the query
score_all(query, choices) ==
    IF choices = <<>> THEN <<>>
    ELSE <<token_set_ratio(query, Head(choices))>> \o score_all(query, Tail(choices))

\* process.extract(query, choices, scorer=fuzz.token_set_ratio, limit=limit)
extract(query, choices, limit) ==
    ranked(choices, score_all(query, choices), DOMAIN choices, limit)

-----------------------------------------------------------------------------
(* The uploaded files *)

\* a cell of a column: missing (NaN), or a text
NaN == [na |-> TRUE, text |-> <<>>]

Cell(t) == [na |-> FALSE, text |-> t]

\* pd.read_excel with its defaults: a blank cell and a cell holding the empty
\* string both come out as NaN
read_excel(cells) ==
    [k \in DOMAIN cells |-> IF cells[k].na \/ cells[k].text = <<>> THEN NaN ELSE cells[k]]

\* the slider and the number input
similarity_threshold_min == 0
similarity_threshold_max == 100
similarity_threshold_default == 75
top_n_min == 1
top_n_max == 20
top_n_default == 5

\* brand cells of an uploaded file: "Ab", "ab Co.", "ac", the empty string, a blank cell
BrandCells ==
    { Cell(<<"A","b">>), Cell(<<"a","b"," ","C","o",".">>), Cell(<<"a","c">>),
      Cell(<<>>), NaN }

\* description texts of an uploaded file: "Ab x", "x by ab", "ab By x"
DescTexts ==
    { <<"A","b"," ","x">>,
      <<"x"," ","b","y"," ","a","b">>,
      <<"a","b"," ","B","y"," ","x">> }

SeqsUpTo(S, n) == UNION {[1..k -> S] : k \in 0..n}

BrandFiles == SeqsUpTo(BrandCells, MaxBrands)

DescFiles == SeqsUpTo(DescTexts, MaxDescs)

Thresholds ==
    {similarity_threshold_min, similarity_threshold_default, similarity_threshold_max}

TopNs == {n \in top_n_min..top_n_max : n <= MaxTopN} \cup {top_n_default}

NotLoaded == [loaded |-> FALSE, rows |-> <<>>]

Frame(rows) == [loaded |-> TRUE, rows |-> rows]

-----------------------------------------------------------------------------
(* The run block *)

\* a dropna that keeps every row
dropna_keeps_all(df) == df

\* brand_df.dropna(subset=[brand_text_col])
dropna(df) == SelectSeq(df, LAMBDA c : ~c.na)

RECURSIVE astype_str(_)
\* work_brands[brand_text_col].astype(str)
astype_str(df) == IF df = <<>> THEN <<>> ELSE <<Head(df).text>> \o astype_str(Tail(df))

RECURSIVE clean_all(_)
\* [clean_text(b) for b in ...]
clean_all(brands) ==
    IF brands = <<>> THEN <<>> ELSE <<clean_text(Head(brands))>> \o clean_all(Tail(brands))

\* a dict in which the first value given for a key stays
dict_zip_first(keys, values) ==
    [n \in Range(keys) |->
        values[CHOOSE k \in DOMAIN keys : keys[k] = n /\ \A j \in 1..(k - 1) : keys[j] # n]]

\* dict(zip(keys, values)): a later pair with the same key replaces the earlier one
dict_zip(keys, values) ==
    [n \in Range(keys) |->
        values[CHOOSE k \in DOMAIN keys :
                   keys[k] = n /\ \A j \in (k + 1)..Len(keys) : keys[j] # n]]

By == <<" ", "b", "y", " ">>

RECURSIVE find(_, _, _)
\* least index >= k at which sub starts in s, 0 when there is none
find(s, sub, k) ==
    IF k + Len(sub) - 1 > Len(s) THEN 0
    ELSE IF SubSeq(s, k, k + Len(sub) - 1) = sub THEN k
    ELSE find(s, sub, k + 1)

RECURSIVE rfind(_, _, _)
\* greatest index <= k at which sub starts in s, 0 when there is none
rfind(s, sub, k) ==
    IF k < 1 THEN 0
    ELSE IF k + Len(sub) - 1 <= Len(s) /\ SubSeq(s, k, k + Len(sub) - 1) = sub THEN k
    ELSE rfind(s, sub, k - 1)

\* " by " in desc_lower
contains_by(desc_lower) == find(desc_lower, By, 1) # 0

\* desc_lower.rsplit(" by ", 1)[1]
after_last_by(desc_lower) ==
    SubSeq(desc_lower, rfind(desc_lower, By, Len(desc_lower)) + Len(By), Len(desc_lower))

\* desc_lower.split(" by ", 1)[1]
after_by(desc_lower) ==
    SubSeq(desc_lower, find(desc_lower, By, 1) + Len(By), Len(desc_lower))

\* the query of a description and whether the " by " heuristic built it
build_query(desc) ==
    LET desc_lower == lower(desc)
    IN  IF contains_by(desc_lower)
        THEN [query |-> clean_text(after_by(desc_lower)), by |-> TRUE]
        ELSE [query |-> clean_text(desc), by |-> FALSE]

\* a comparison that leaves out the candidates scoring the threshold itself
above_threshold(score, threshold) == 100 * score.num > threshold * score.den

\* m[1] >= int(similarity_threshold)
passes(score, threshold) == AtLeast(score, threshold)

\* [(cleaned_to_original[m[0]], m[1]) for m in results if m[1] >= int(similarity_threshold)]
filter_results(results, threshold, to_original) ==
    LET kept == SelectSeq(results, LAMBDA m : passes(m.score, threshold))
    IN  [k \in DOMAIN kept |-> [name |-> to_original[kept[k].choice], score |-> kept[k].score]]

\* a second ranking that never happens
never_falls_back(filtered, desc_lower) == FALSE

\* a second ranking whenever the first list is empty
falls_back_without_by(filtered, desc_lower) == Len(filtered) = 0

\* len(filtered) == 0 and " by " in desc_lower
falls_back(filtered, desc_lower) == Len(filtered) = 0 /\ contains_by(desc_lower)

\* what one pass of the loop body computes for a description
match(desc, choices, to_original, threshold, limit) ==
    LET desc_lower == lower(desc)
        q == build_query(desc)
        results == extract(q.query, choices, limit)
        filtered == filter_results(results, threshold, to_original)
        query2 == clean_text(desc)
        results2 == extract(query2, choices, limit)
    IN  IF falls_back(filtered, desc_lower)
        THEN [filtered |-> filter_results(results2, threshold, to_original),
              calls |-> <<q.query, query2>>]
        ELSE [filtered |-> filtered, calls |-> <<q.query>>]

\* a list that takes a new entry at its head
prepend(list, x) == <<x>> \o list

\* list.append(x)
append(list, x) == Append(list, x)

-----------------------------------------------------------------------------
(* The script as a state machine.  Every change of a widget runs the script  *)
(* again from the top with run = False, so what an earlier run showed is      *)
(* gone; a press of the button runs the block under "if run".                 *)

NoRun ==
    /\ cleaned_brands = <<>>
    /\ cleaned_to_original = <<>>
    /\ row = 0
    /\ matched_brands_per_description = <<>>
    /\ extract_calls = <<>>
    /\ out_df = <<>>

NoText ==
    /\ text = <<>>
    /\ once = <<>>
    /\ twice = <<>>
    /\ built = [query |-> <<>>, by |-> FALSE]

NoRefine ==
    /\ names = <<>>
    /\ classification = [kind |-> "none", accepted |-> <<>>]

Init ==
    /\ pc = "idle"
    /\ desc_df = NotLoaded
    /\ brand_file = <<>>
    /\ brand_df = NotLoaded
    /\ similarity_threshold = similarity_threshold_default
    /\ top_n = top_n_default
    /\ NoRun
    /\ NoText
    /\ NoRefine

\* a widget changes: the script runs again, without the run block
Rerun ==
    /\ pc \in {"idle", "done"}
    /\ pc' = "idle"
    /\ cleaned_brands' = <<>>
    /\ cleaned_to_original' = <<>>
    /\ row' = 0
    /\ matched_brands_per_description' = <<>>
    /\ extract_calls' = <<>>
    /\ out_df' = <<>>
    /\ UNCHANGED <<text_vars, refine_vars>>

\* a descriptions file is uploaded and read (each file is uploaded once)
UploadDescriptions ==
    /\ ~desc_df.loaded
    /\ Rerun
    /\ \E rows \in DescFiles : desc_df' = Frame(rows)
    /\ UNCHANGED <<brand_file, brand_df, similarity_threshold, top_n>>

\* a brands file is uploaded and read
UploadBrands ==
    /\ ~brand_df.loaded
    /\ Rerun
    /\ \E cells \in BrandFiles :
           /\ brand_file' = cells
           /\ brand_df' = Frame(read_excel(cells))
    /\ UNCHANGED <<desc_df, similarity_threshold, top_n>>

SetThreshold ==
    /\ Rerun
    /\ \E t \in Thresholds : similarity_threshold' = t
    /\ UNCHANGED <<desc_df, brand_file, brand_df, top_n>>

SetTopN ==
    /\ Rerun
    /\ \E n \in TopNs : top_n' = n
    /\ UNCHANGED <<desc_df, brand_file, brand_df, similarity_threshold>>

\* the button is enabled once both files are loaded; the block prepares the brands
RunMatching ==
    /\ pc \in {"idle", "done"}
    /\ desc_df.loaded /\ brand_df.loaded
    /\ LET work_brands == dropna(brand_df.rows)
           originals == astype_str(work_brands)
           cleaned == clean_all(originals)
       IN  /\ cleaned_brands' = cleaned
           /\ cleaned_to_original' = dict_zip(cleaned, originals)
    /\ matched_brands_per_description' = <<>>
    /\ extract_calls' = <<>>
    /\ row' = 0
    /\ out_df' = <<>>
    /\ pc' = "matching"
    /\ UNCHANGED <<desc_df, brand_file, brand_df, similarity_threshold, top_n, text_vars,
                   refine_vars>>

\* one pass of the loop over the descriptions
MatchRow ==
    /\ pc = "matching"
    /\ row < Len(desc_df.rows)
    /\ LET m == match(desc_df.rows[row + 1], cleaned_brands, cleaned_to_original,
                      similarity_threshold, top_n)
       IN  /\ matched_brands_per_description' = append(matched_brands_per_description, m.filtered)
           /\ extract_calls' = Append(extract_calls, m.calls)
    /\ row' = row + 1
    /\ UNCHANGED <<pc, desc_df, brand_file, brand_df, similarity_threshold, top_n, cleaned_brands,
                   cleaned_to_original, out_df, text_vars, refine_vars>>

\* pd.DataFrame of the two columns
BuildOutput ==
    /\ pc = "matching"
    /\ row = Len(desc_df.rows)
    /\ out_df' = [k \in DOMAIN desc_df.rows |->
                    [Description |-> desc_df.rows[k],
                     Matched_Brands |-> matched_brands_per_description[k]]]
    /\ pc' = "done"
    /\ UNCHANGED <<desc_df, brand_file, brand_df, similarity_threshold, top_n, cleaned_brands,
                   cleaned_to_original, row, matched_brands_per_description,
                   extract_calls, text_vars, refine_vars>>

Next ==
    \/ UploadDescriptions
    \/ UploadBrands
    \/ SetThreshold
    \/ SetTopN
    \/ RunMatching
    \/ MatchRow
    \/ BuildOutput

Spec == Init /\ [][Next]_vars

-----------------------------------------------------------------------------
(* clean_text alone, on every text of a small alphabet *)

CleanAlphabet == {"C", "o", "(", ")", "'", ".", " "}

CleanTexts == SeqsUpTo(CleanAlphabet, MaxLen)

NoFiles ==
    /\ desc_df = NotLoaded
    /\ brand_file = <<>>
    /\ brand_df = NotLoaded
    /\ similarity_threshold = similarity_threshold_default
    /\ top_n = top_n_default
    /\ NoRun

InitClean ==
    /\ pc = "text"
    /\ text \in CleanTexts
    /\ once = <<>>
    /\ twice = <<>>
    /\ built = [query |-> <<>>, by |-> FALSE]
    /\ NoFiles
    /\ NoRefine

CleanOnce ==
    /\ pc = "text"
    /\ once' = clean_text(text)
    /\ pc' = "cleaned"
    /\ UNCHANGED <<text, twice, built, pipeline_vars, refine_vars>>

CleanTwice ==
    /\ pc = "cleaned"
    /\ twice' = clean_text(once)
    /\ pc' = "recleaned"
    /\ UNCHANGED <<text, once, built, pipeline_vars, refine_vars>>

NextClean == CleanOnce \/ CleanTwice

SpecClean == InitClean /\ [][NextClean]_vars

-----------------------------------------------------------------------------
(* the " by " heuristic alone, on every description of a small alphabet *)

QueryAlphabet == {"b", "Y", "x", " "}

QueryTexts == SeqsUpTo(QueryAlphabet, MaxQueryLen)

InitQuery ==
    /\ pc = "desc"
    /\ text \in QueryTexts
    /\ once = <<>>
    /\ twice = <<>>
    /\ built = [query |-> <<>>, by |-> FALSE]
    /\ NoFiles
    /\ NoRefine

BuildQuery ==
    /\ pc = "desc"
    /\ built' = build_query(text)
    /\ pc' = "queried"
    /\ UNCHANGED <<text, once, twice, pipeline_vars, refine_vars>>

NextQuery == BuildQuery

SpecQuery == InitQuery /\ [][NextQuery]_vars

-----------------------------------------------------------------------------
(* The refinement filter (classify), on matched brand names *)

\* sub in s
is_substring(sub, s) == find(s, sub, 1) # 0

Classification(kind, accepted) == [kind |-> kind, accepted |-> accepted]

RECURSIVE refine_from(_, _, _, _, _)
\* steps 2 to 4, name by name: a one-token brand is noted and skipped, a
\* multi-word brand found in the description is accepted
refine_from(brands, k, desc_clean, accepted, single_seen) ==
    IF k > Len(brands) THEN [accepted |-> accepted, single_seen |-> single_seen]
    ELSE LET brand_clean == clean_text(brands[k])
             tokens == split(brand_clean)
         IN  IF Len(tokens) = 1
             THEN refine_from(brands, k + 1, desc_clean, accepted, TRUE)
             ELSE IF Len(tokens) >= 2 /\ is_substring(brand_clean, desc_clean)
             THEN refine_from(brands, k + 1, desc_clean, Append(accepted, brands[k]), single_seen)
             ELSE refine_from(brands, k + 1, desc_clean, accepted, single_seen)

\* a filter that reports the one-word brand before the accepted ones
classify_single_first(desc, brands) ==
    LET r == refine_from(brands, 1, clean_text(desc), <<>>, FALSE)
    IN  IF brands = <<>> THEN Classification("NoMatch", <<>>)
        ELSE IF r.single_seen THEN Classification("AmbiguousSingleWord", <<>>)
        ELSE IF r.accepted # <<>> THEN Classification("ConfidentMatches", r.accepted)
        ELSE Classification("NoMatch", <<>>)

\* steps 1 and 5 to 7
classify(desc, brands) ==
    LET r == refine_from(brands, 1, clean_text(desc), <<>>, FALSE)
    IN  IF brands = <<>> THEN Classification("NoMatch", <<>>)
        ELSE IF r.accepted # <<>> THEN Classification("ConfidentMatches", r.accepted)
        ELSE IF r.single_seen THEN Classification("AmbiguousSingleWord", <<>>)
        ELSE Classification("NoMatch", <<>>)

\* matched brand names: "ab", "Ab Cd", "cd ab", "Co."
RefineNames ==
    { <<"a","b">>, <<"A","b"," ","C","d">>, <<"c","d"," ","a","b">>, <<"C","o",".">> }

\* descriptions: "x by Ab Cd Co.", "cd ab", "x"
RefineDescs ==
    { <<"x"," ","b","y"," ","A","b"," ","C","d"," ","C","o",".">>,
      <<"c","d"," ","a","b">>,
      <<"x">> }

InitRefine ==
    /\ pc = "matched"
    /\ text \in RefineDescs
    /\ names \in SeqsUpTo(RefineNames, MaxNames)
    /\ classification = [kind |-> "none", accepted |-> <<>>]
    /\ once = <<>>
    /\ twice = <<>>
    /\ built = [query |-> <<>>, by |-> FALSE]
    /\ NoFiles

Classify ==
    /\ pc = "matched"
    /\ classification' = classify(text, names)
    /\ pc' = "classified"
    /\ UNCHANGED <<names, text_vars, pipeline_vars>>

NextRefine == Classify

SpecRefine == InitRefine /\ [][NextRefine]_vars

-----------------------------------------------------------------------------
(* Properties *)

ByText == <<" ", "b", "y", " ">>

\* the literal " by " stands in l from position k on
ByAt(l, k) == k >= 1 /\ k + 3 <= Len(l) /\ SubSeq(l, k, k + 3) = ByText

HasBy(l) == \E k \in 1..Len(l) : ByAt(l, k)

FirstBy(l) == CHOOSE k \in 1..Len(l) : ByAt(l, k) /\ \A j \in 1..(k - 1) : ~ByAt(l, j)

\* the text of l after its first " by "
AfterFirstBy(l) == SubSeq(l, FirstBy(l) + 4, Len(l))

\* the positions of a ranking whose score is at least t
Hits(R, t) == {p \in DOMAIN R : 100 * R[p].score.num >= t * R[p].score.den}

\* the j-th smallest member of a set of numbers
Nth(S, j) == CHOOSE p \in S : Cardinality({q \in S : q < p}) = j - 1

\* a ranking without its entries below t, the others in their order, each
\* under the original name the dict gives for it
Kept(R, t, dict) ==
    [j \in 1..Cardinality(Hits(R, t)) |->
        [name |-> dict[R[Nth(Hits(R, t), j)].choice], score |-> R[Nth(Hits(R, t), j)].score]]

\* the texts a run cleans: the brand cells, the descriptions, and what follows
\* the first " by " of a lower-cased description
CleanedTexts ==
    {c.text : c \in BrandCells} \cup DescTexts
        \cup {AfterFirstBy(lower(d)) : d \in {e \in DescTexts : HasBy(lower(e))}}

\* clean_text on each of those texts
Cleaned == [t \in CleanedTexts |-> clean_text(t)]

\* token_set_ratio of each pair of cleaned texts
Ratio == [q \in Range(Cleaned) |-> [c \in Range(Cleaned) |-> token_set_ratio(q, c)]]

\* what process.extract returns for query q on the vocabulary of the run
Ranking(q) ==
    ranked(cleaned_brands, [j \in DOMAIN cleaned_brands |-> Ratio[q][cleaned_brands[j]]],
           DOMAIN cleaned_brands, top_n)

\* the after-" by " query and the full-description query of row k
FirstQuery(k) == Cleaned[AfterFirstBy(lower(desc_df.rows[k]))]

FullQuery(k) == Cleaned[desc_df.rows[k]]

\* the ranking of the after-" by " query of processed row k
FirstRanking(k) == Ranking(FirstQuery(k))

\* the ranking of the full-description query of processed row k
FullRanking(k) == Ranking(FullQuery(k))

\* row k took the fallback: " by " in it, and nothing of the first ranking passed
FellBack(k) ==
    /\ HasBy(lower(desc_df.rows[k]))
    /\ Hits(FirstRanking(k), similarity_threshold) = {}

\* the ranking of the query actually used for processed row k
UsedRanking(k) ==
    IF HasBy(lower(desc_df.rows[k])) /\ ~FellBack(k) THEN FirstRanking(k) ELSE FullRanking(k)

Processed == DOMAIN matched_brands_per_description

\* C1: when the " by " heuristic built the query and no candidate of its ranking
\* reaches the threshold, the row's match list is the threshold-filtered ranking
\* of the full-description query; so it is non-empty whenever that ranking
\* holds a candidate at or above the threshold
C1_FallbackReranks ==
    \A k \in Processed :
        FellBack(k) =>
            /\ matched_brands_per_description[k]
                   = Kept(FullRanking(k), similarity_threshold, cleaned_to_original)
            /\ Hits(FullRanking(k), similarity_threshold) # {}
                   => matched_brands_per_description[k] # <<>>

C1_Witness ==
    \E k \in Processed : FellBack(k) /\ matched_brands_per_description[k] # <<>>

\* C2: the query is clean_text of the text after the first " by " of the
\* lower-cased description, with the flag true, when " by " occurs in it; else
\* it is clean_text of the whole description, with the flag false
C2_QueryAfterFirstBy ==
    pc = "queried" =>
        IF HasBy(lower(text))
        THEN built.by /\ built.query = clean_text(AfterFirstBy(lower(text)))
        ELSE ~built.by /\ built.query = clean_text(text)

C2_Witness ==
    /\ pc = "queried"
    /\ built.by
    /\ built.query # <<>>
    /\ \E j \in 1..Len(text) : j > FirstBy(lower(text)) /\ ByAt(lower(text), j)

\* the entries of a ranking fall in score, equal scores in vocabulary order
Descending(R) ==
    \A p, q \in DOMAIN R :
        p < q =>
            /\ R[p].score.num * R[q].score.den >= R[q].score.num * R[p].score.den
            /\ R[p].score.num * R[q].score.den = R[q].score.num * R[p].score.den
                   => R[p].index < R[q].index

\* C3: a row's match list is the ranking of the query actually used (at most
\* top_n entries, falling score, ties in vocabulary order) without the entries
\* below the threshold and otherwise in the same order; every entry reaches the
\* threshold and there are at most top_n of them
C3_FilteredRanking ==
    \A k \in Processed :
        /\ LET R == UsedRanking(k)
           IN  /\ Len(R) <= top_n
               /\ Descending(R)
               /\ matched_brands_per_description[k]
                      = Kept(R, similarity_threshold, cleaned_to_original)
        /\ Len(matched_brands_per_description[k]) <= top_n
        /\ \A j \in DOMAIN matched_brands_per_description[k] :
               100 * matched_brands_per_description[k][j].score.num
                   >= similarity_threshold * matched_brands_per_description[k][j].score.den

C3_Witness ==
    \E k \in Processed :
        /\ matched_brands_per_description[k] # <<>>
        /\ Len(matched_brands_per_description[k]) < Len(UsedRanking(k))

\* the brand rows that hold a text, and those that clean to n
RowsOf(n) ==
    {k \in DOMAIN brand_df.rows : ~brand_df.rows[k].na /\ Cleaned[brand_df.rows[k].text] = n}

FirstRaw(n) == brand_df.rows[Nth(RowsOf(n), 1)].text

LastRaw(n) == brand_df.rows[Nth(RowsOf(n), Cardinality(RowsOf(n)))].text

\* the original names reported in the match lists
ReportedNames ==
    UNION {{matched_brands_per_description[k][j].name :
               j \in DOMAIN matched_brands_per_description[k]} : k \in Processed}

\* C4, as claimed: the original name looked up for a cleaned brand, and reported
\* for a candidate, is the text of the first brand row that cleans to it
C4_FirstRowWins ==
    pc \in {"matching", "done"} =>
        /\ \A n \in DOMAIN cleaned_to_original : cleaned_to_original[n] = FirstRaw(n)
        /\ \A name \in ReportedNames : name = FirstRaw(Cleaned[name])

\* C4, amended: the original name looked up for a cleaned brand, and reported
\* for a candidate, is the text of the last brand row that cleans to it
C4_LastRowWins ==
    pc \in {"matching", "done"} =>
        /\ \A n \in DOMAIN cleaned_to_original : cleaned_to_original[n] = LastRaw(n)
        /\ \A name \in ReportedNames : name = LastRaw(Cleaned[name])

C4_Witness ==
    /\ pc = "done"
    /\ \E n \in DOMAIN cleaned_to_original :
           /\ FirstRaw(n) # LastRaw(n)
           /\ LastRaw(n) \in ReportedNames

\* the match list the claims expect for processed row k
ExpectedList(k) == Kept(UsedRanking(k), similarity_threshold, cleaned_to_original)

\* C6: after k rows the result list has k entries, entry i the match list of
\* description i; the finished run's output has one row per description, in
\* input order, each pairing the description itself with its own match list
C6_OneResultPerRow ==
    /\ pc \in {"matching", "done"} =>
           /\ Len(matched_brands_per_description) = row
           /\ row <= Len(desc_df.rows)
           /\ \A k \in 1..row : matched_brands_per_description[k] = ExpectedList(k)
    /\ pc = "done" =>
           /\ row = Len(desc_df.rows)
           /\ Len(out_df) = Len(desc_df.rows)
           /\ \A k \in DOMAIN out_df :
                  /\ out_df[k].Description = desc_df.rows[k]
                  /\ out_df[k].Matched_Brands = matched_brands_per_description[k]

C6_Witness ==
    /\ pc = "done"
    /\ Len(out_df) >= 2
    /\ out_df[1].Description # out_df[2].Description
    /\ out_df[1].Matched_Brands # out_df[2].Matched_Brands

\* the rows of the uploaded brands file that hold a non-empty text
Usable == {k \in DOMAIN brand_file : ~brand_file[k].na /\ brand_file[k].text # <<>>}

\* C8: the vocabulary holds exactly the brand rows whose cell is neither
\* missing nor the empty string, in input order, so no other row is scored or
\* reported in a match list, at any threshold
C8_NoMissingBrand ==
    pc \in {"matching", "done"} =>
        /\ Len(cleaned_brands) = Cardinality(Usable)
        /\ \A j \in DOMAIN cleaned_brands :
               cleaned_brands[j] = Cleaned[brand_file[Nth(Usable, j)].text]
        /\ \A name \in ReportedNames : \E k \in Usable : brand_file[k].text = name
        /\ \A k \in Processed :
               Len(matched_brands_per_description[k]) <= Cardinality(Usable)

C8_Witness ==
    /\ pc = "done"
    /\ similarity_threshold = 0
    /\ \E k \in DOMAIN brand_file : k \notin Usable
    /\ Usable # {}
    /\ \E k \in Processed : Len(matched_brands_per_description[k]) = Cardinality(Usable)

\* C10: process.extract is called once or twice for a row: once when the
\* description holds no " by ", once when the after-" by " ranking has a
\* candidate at or above the threshold (that filtered list is the result), and
\* twice, never more, when it has none
C10_AtMostOneRetry ==
    \A k \in DOMAIN extract_calls :
        /\ Len(extract_calls[k]) \in {1, 2}
        /\ IF ~HasBy(lower(desc_df.rows[k]))
           THEN extract_calls[k] = <<FullQuery(k)>>
           ELSE LET R == FirstRanking(k)
                IN  IF Hits(R, similarity_threshold) # {}
                    THEN /\ extract_calls[k] = <<FirstQuery(k)>>
                         /\ matched_brands_per_description[k]
                                = Kept(R, similarity_threshold, cleaned_to_original)
                    ELSE extract_calls[k] = <<FirstQuery(k), FullQuery(k)>>

C10_Witness ==
    \E k \in DOMAIN extract_calls :
        Len(extract_calls[k]) = 2 /\ matched_brands_per_description[k] = <<>>

\* a text as clean_text leaves it: lower-case word characters in words parted
\* by single spaces, none of the words a legal suffix
Canonical(t) ==
    /\ \A k \in DOMAIN t : t[k] = " " \/ t[k] \in LowerWordChars
    /\ t # <<>> => t[1] # " " /\ t[Len(t)] # " "
    /\ \A k \in 1..(Len(t) - 1) : ~(t[k] = " " /\ t[k + 1] = " ")
    /\ \A a, b \in DOMAIN t :
           (/\ a <= b
            /\ \A k \in a..b : t[k] # " "
            /\ a = 1 \/ t[a - 1] = " "
            /\ b = Len(t) \/ t[b + 1] = " ")
               => SubSeq(t, a, b) \notin LegalSuffixes

\* C9: clean_text is idempotent, clean_text(clean_text(s)) = clean_text(s): its
\* output holds no parenthesis, apostrophe, legal-suffix word, punctuation or
\* extra whitespace for a second pass to remove
C9_Idempotent ==
    /\ pc \in {"cleaned", "recleaned"} => Canonical(once)
    /\ pc = "recleaned" => twice = once

C9_Witness ==
    /\ pc = "recleaned"
    /\ once # <<>>
    /\ once # lower(text)
    /\ twice = once

\* sub stands in s as a contiguous run
Within(sub, s) == \E k \in 0..(Len(s) - Len(sub)) : SubSeq(s, k + 1, k + Len(sub)) = sub

\* the matched names of two or more tokens that stand in the cleaned description
Confirmed ==
    {j \in DOMAIN names :
        /\ Len(split(clean_text(names[j]))) >= 2
        /\ Within(clean_text(names[j]), clean_text(text))}

\* C5: the classification is ConfidentMatches, with the names in their order,
\* when a matched brand of two or more tokens stands in the cleaned description;
\* else AmbiguousSingleWord when a matched brand cleans to one token; else
\* NoMatch, also for an empty list of names
C5_Classification ==
    pc = "classified" =>
        IF Confirmed # {}
        THEN /\ classification.kind = "ConfidentMatches"
             /\ classification.accepted
                    = [j \in 1..Cardinality(Confirmed) |-> names[Nth(Confirmed, j)]]
        ELSE IF \E j \in DOMAIN names : Len(split(clean_text(names[j]))) = 1
        THEN classification = [kind |-> "AmbiguousSingleWord", accepted |-> <<>>]
        ELSE classification = [kind |-> "NoMatch", accepted |-> <<>>]

C5_Witness ==
    /\ pc = "classified"
    /\ classification.kind = "ConfidentMatches"
    /\ \E j \in DOMAIN names : Len(split(clean_text(names[j]))) = 1

=============================================================================
